---- MODULE Spec2Model ----
(***************************************************************************)
(* The session controller of standlog-server                               *)
(* (src/src/controllers/session.controller.ts, the version that enriches   *)
(* the report through the summarization collaborator, lines 202-443):      *)
(* createSession, logEvent, generateReport and getLatestReport, run by     *)
(* concurrent request handlers over the Session, Event and Reports tables. *)
(* Every `await` of a handler is one step of the model, so the handlers    *)
(* interleave exactly where the code yields.                               *)
(***************************************************************************)
EXTENDS Integers, Sequences, FiniteSets, TLC

\* ------------------------------------------------------------------ bounds
NumProcs == 2       \* request handlers in flight at once
MaxSessions == 2    \* Session rows
MaxEvents == 2      \* Event rows
MaxBatch == 2       \* event objects in one logEvent request
MaxReports == 2     \* Reports rows
MaxTime == 1        \* clock ticks (one tick = one minute)
MaxTextLen == 3     \* tokens in the collaborator's text

Procs == 1..NumProcs

\* ------------------------------------------------------------ request data
NoField == -1                 \* a field the object does not carry
NoType == "NoType"            \* an event object without a usable type
Null == "null"                \* JSON null
Summary == "summary"          \* the object a valid fenced block parses to
NoData == "NoData"

AnonInputs == {"", "anonA"}               \* "" is the falsy / missing value
MetadataInputs == {"meta"}
EventTypes == {"CLICK", "SCROLL"}

\* ids a request may name: 0 is the falsy / missing sessionId; an id is
\* unknown until the Session row that gets it is created
SessionIdInputs == 0..MaxSessions

\* an event object of the request body: its type (or none) and, possibly,
\* a sessionId field of its own
EventObjects ==
    [type : EventTypes, sessionId : {NoField}]
        \cup {[type |-> "CLICK", sessionId |-> MaxSessions],
              [type |-> NoType, sessionId |-> NoField]}

RECURSIVE SeqsUpTo(_, _)
SeqsUpTo(S, n) ==
    IF n = 0 THEN {<<>>}
    ELSE LET shorter == SeqsUpTo(S, n - 1)
         IN  shorter \cup {Append(s, x) : s \in {t \in shorter : Len(t) = n - 1}, x \in S}

\* the `events` value of a request body: an array of event objects, or a
\* value that is no array (missing, a string, an object)
EventPayloads ==
    {[isArray |-> TRUE, items |-> s] : s \in SeqsUpTo(EventObjects, MaxBatch)}
        \cup {[isArray |-> FALSE, items |-> <<>>]}

NoBody == [anonymousId |-> "", metadata |-> "NoMeta", sessionId |-> 0,
           events |-> [isArray |-> FALSE, items |-> <<>>]]

NoReport == [id |-> 0, createdAt |-> 0, data |-> Null]

NoResp == [status |-> 0, success |-> FALSE, id |-> 0, anonymousId |-> "",
           eventsProcessed |-> 0, sessionId |-> 0, report |-> NoReport]

\* the locals of getLatestReport and generateReport: latestReport,
\* diffInMinutes (-1 before it is computed), reportData, what the
\* collaborator's text was, and parsedData
NoLocals == [latest |-> NoReport, age |-> -1, reportData |-> NoData,
             textKind |-> "none", parsedData |-> Null]

VARIABLES
    sessions,    \* the Session table: rows [id, anonymousId, metadata]
    events,      \* the Event table: rows [sessionId, type], id = position
    reports,     \* the Reports table: rows [id, createdAt, data]
    now,         \* the clock
    pc,          \* where each handler stands
    op,          \* the handler each request runs
    body,        \* req.body, while the handler runs
    loc,         \* the locals of the report handlers
    created,     \* ids of the Reports rows this call created
    added,       \* ids of the Event rows this call created
    err,         \* what threw in the call: "db" a query that failed, "rejected"
                 \* a batch the Event table refused, "map" events.map, "fetch"
                 \* the call to the collaborator or reading its body, "parse"
                 \* the extraction; "none" when nothing did
    resp         \* the response sent

vars == <<sessions, events, reports, now, pc, op, body, loc, created, added,
          err, resp>>

SessionIds(ss) == {ss[i].id : i \in DOMAIN ss}

Init ==
    /\ sessions = <<>>
    /\ events = <<>>
    /\ reports = <<>>
    /\ now = 0
    /\ pc = [p \in Procs |-> "idle"]
    /\ op = [p \in Procs |-> "none"]
    /\ body = [p \in Procs |-> NoBody]
    /\ loc = [p \in Procs |-> NoLocals]
    /\ created = [p \in Procs |-> {}]
    /\ added = [p \in Procs |-> {}]
    /\ err = [p \in Procs |-> "none"]
    /\ resp = [p \in Procs |-> NoResp]

\* a handler takes a new request when it is idle or has answered the last
Free(p) == pc[p] \in {"idle", "done"}

\* a request arrives at handler p: nothing of the last call is left
Begin(p, o) ==
    /\ Free(p)
    /\ op' = [op EXCEPT ![p] = o]
    /\ created' = [created EXCEPT ![p] = {}]
    /\ added' = [added EXCEPT ![p] = {}]

\* a catch block that answers as if nothing had failed
InternalErrorAnswered200 == [NoResp EXCEPT !.status = 200]

\* the catch block of every handler: 500, success:false
InternalError == [NoResp EXCEPT !.status = 500]

\* res.status(..).json(..)
Reply(p, r) ==
    /\ pc' = [pc EXCEPT ![p] = "done"]
    /\ body' = [body EXCEPT ![p] = NoBody]
    /\ resp' = [resp EXCEPT ![p] = r]
    /\ err' = [err EXCEPT ![p] = "none"]

\* an exception reaches the handler's catch block
Throw(p, what) ==
    /\ pc' = [pc EXCEPT ![p] = "done"]
    /\ body' = [body EXCEPT ![p] = NoBody]
    /\ resp' = [resp EXCEPT ![p] = InternalError]
    /\ err' = [err EXCEPT ![p] = what]

\* the handler awaits its next call
Await(p, label) ==
    /\ pc' = [pc EXCEPT ![p] = label]
    /\ resp' = [resp EXCEPT ![p] = NoResp]
    /\ err' = [err EXCEPT ![p] = "none"]

Tick ==
    /\ now < MaxTime
    /\ now' = now + 1
    /\ UNCHANGED <<sessions, events, reports, pc, op, body, loc, created,
                   added, err, resp>>

\* ----------------------------------------------------------- createSession
InFlight(labels) == Cardinality({q \in Procs : pc[q] \in labels})

\* the primary key of a new Session row: generated, the key of no other row
NewSessionId(ss) == Len(ss) + 1

\* session.upsert keyed on anonymousId: a visitor seen before gets no new row
SessionUpsert(ss, anonymousId, metadata) ==
    IF \E i \in DOMAIN ss : ss[i].anonymousId = anonymousId
    THEN ss
    ELSE Append(ss, [id |-> NewSessionId(ss), anonymousId |-> anonymousId,
                     metadata |-> metadata])

\* session.create({ data: { anonymousId, metadata } })
SessionCreate(ss, anonymousId, metadata) ==
    Append(ss, [id |-> NewSessionId(ss), anonymousId |-> anonymousId,
                metadata |-> metadata])

\* res.status(201).json({ id, anonymousId, success: true })
SessionCreated(newSession) ==
    [NoResp EXCEPT !.status = 201, !.success = TRUE, !.id = newSession.id,
                   !.anonymousId = newSession.anonymousId]

CreateSessionStart(p) ==
    /\ Len(sessions) + InFlight({"cs_create"}) < MaxSessions
    /\ Begin(p, "createSession")
    /\ \E a \in AnonInputs, m \in MetadataInputs :
        IF a = ""
        THEN /\ Reply(p, [NoResp EXCEPT !.status = 400])
        ELSE /\ Await(p, "cs_create")
             /\ body' = [body EXCEPT ![p] = [NoBody EXCEPT !.anonymousId = a,
                                                          !.metadata = m]]
    /\ loc' = [loc EXCEPT ![p] = NoLocals]
    /\ UNCHANGED <<sessions, events, reports, now>>

CreateSessionCreate(p) ==
    /\ pc[p] = "cs_create"
    /\ \E ok \in BOOLEAN :
        IF ok
        THEN /\ sessions' = SessionCreate(sessions, body[p].anonymousId,
                                          body[p].metadata)
             /\ Reply(p, SessionCreated(sessions'[Len(sessions')]))
        ELSE /\ Throw(p, "db")
             /\ UNCHANGED sessions
    /\ UNCHANGED <<events, reports, now, op, loc, created, added>>

\* ---------------------------------------------------------------- logEvent
\* events.map((event) => ({ sessionId, ...event })): the spread comes after
\* sessionId, so a sessionId field of the event object replaces the request's
StampEvents(sessionId, items) ==
    [i \in DOMAIN items |->
        [sessionId |-> IF items[i].sessionId # NoField
                       THEN items[i].sessionId
                       ELSE sessionId,
         type |-> items[i].type]]

\* an Event table without the foreign key on sessionId
CreateManyAcceptsNoForeignKey(rows, ss) ==
    \A i \in DOMAIN rows : rows[i].type \in EventTypes

\* the Event table takes a batch whole or not at all: every row needs a type
\* and a sessionId that is the id of a Session row (Event_sessionId_fkey)
CreateManyAccepts(rows, ss) ==
    \A i \in DOMAIN rows :
        /\ rows[i].type \in EventTypes
        /\ rows[i].sessionId \in SessionIds(ss)

EventCreateMany(evs, rows) == evs \o rows

\* a lookup that does not filter on the id
SessionExistsAny(ss, id) == ss # <<>>

\* session.findUnique({ where: { id } })
SessionExists(ss, id) == \E i \in DOMAIN ss : ss[i].id = id

RECURSIVE SumLen(_)
SumLen(S) ==
    IF S = {} THEN 0
    ELSE LET q == CHOOSE x \in S : TRUE
         IN  Len(body[q].events.items) + SumLen(S \ {q})

PendingEvents == SumLen({q \in Procs : pc[q] \in {"le_find", "le_create"}})

\* res.status(201).json({ success: true, eventsProcessed, sessionId })
EventsLogged(count, sessionId) ==
    [NoResp EXCEPT !.status = 201, !.success = TRUE,
                   !.eventsProcessed = count, !.sessionId = sessionId]

LogEventStart(p) ==
    /\ Begin(p, "logEvent")
    /\ \E s \in SessionIdInputs, ev \in EventPayloads :
        /\ Len(events) + PendingEvents + Len(ev.items) <= MaxEvents
        /\ IF s = 0
           THEN Reply(p, [NoResp EXCEPT !.status = 400])
           ELSE /\ Await(p, "le_find")
                /\ body' = [body EXCEPT ![p] = [NoBody EXCEPT !.sessionId = s,
                                                             !.events = ev]]
    /\ loc' = [loc EXCEPT ![p] = NoLocals]
    /\ UNCHANGED <<sessions, events, reports, now>>

LogEventFind(p) ==
    /\ pc[p] = "le_find"
    /\ \E ok \in BOOLEAN :
        IF ~ok THEN Throw(p, "db")
        ELSE IF ~SessionExists(sessions, body[p].sessionId)
        THEN Reply(p, [NoResp EXCEPT !.status = 404])
        ELSE Await(p, "le_create") /\ UNCHANGED body
    /\ UNCHANGED <<sessions, events, reports, now, op, loc, created, added>>

LogEventCreate(p) ==
    /\ pc[p] = "le_create"
    /\ \E ok \in BOOLEAN :
        LET sid == body[p].sessionId
            ev == body[p].events
            rows == StampEvents(sid, ev.items)
        IN  IF ~ev.isArray
            THEN Throw(p, "map") /\ UNCHANGED <<events, added>>
            ELSE IF ~ok
            THEN Throw(p, "db") /\ UNCHANGED <<events, added>>
            ELSE IF ~CreateManyAccepts(rows, sessions)
            THEN Throw(p, "rejected") /\ UNCHANGED <<events, added>>
            ELSE /\ events' = EventCreateMany(events, rows)
                 /\ added' = [added EXCEPT ![p] = (Len(events) + 1)..Len(events')]
                 /\ Reply(p, EventsLogged(Len(events') - Len(events), sid))
    /\ UNCHANGED <<sessions, reports, now, op, loc, created>>

\* ---------------------------------------------------------- generateReport
\* session.findMany({ include: { events: true } }): the events of a session
SessionEvents(evs, id) == SelectSeq(evs, LAMBDA e : e.sessionId = id)

\* acc[event.type] = 1: the count is set, not incremented
CountTypeSet(acc, t) ==
    [x \in DOMAIN acc \cup {t} |-> IF x = t THEN 1 ELSE acc[x]]

\* acc[event.type] = (acc[event.type] || 0) + 1
CountType(acc, t) ==
    IF t \in DOMAIN acc
    THEN [acc EXCEPT ![t] = @ + 1]
    ELSE [x \in DOMAIN acc \cup {t} |-> IF x = t THEN 1 ELSE acc[x]]

\* session.events.reduce(..., {})
RECURSIVE EventsByType(_, _)
EventsByType(evs, acc) ==
    IF evs = <<>> THEN acc
    ELSE EventsByType(Tail(evs), CountType(acc, Head(evs).type))

EmptyCounts == [x \in {} |-> 0]

ReportData(ss, evs) ==
    [totalSessions |-> Len(ss),
     sessions |->
        [i \in DOMAIN ss |->
            [id |-> ss[i].id,
             anonymousId |-> ss[i].anonymousId,
             metadata |-> ss[i].metadata,
             data |-> SessionEvents(evs, ss[i].id),
             totalEvents |-> Len(SessionEvents(evs, ss[i].id)),
             eventsByType |-> EventsByType(SessionEvents(evs, ss[i].id),
                                           EmptyCounts)]]]

\* The collaborator's text, as tokens: "open" is the fence ```json, "close"
\* the fence ```, "obj" the text of one JSON value, "junk" any other text.
Tokens == {"open", "close", "obj", "junk"}
Texts == SeqsUpTo(Tokens, MaxTextLen)

\* ``` matches the closing fence and also the first three characters of
\* another ```json
ClosesBlock(tok) == tok \in {"open", "close"}

NoMatch == [found |-> FALSE, group |-> <<>>]

\* the lazy group ([\s\S]*?) followed by ```
RECURSIVE LazyGroup(_, _)
LazyGroup(rest, taken) ==
    IF rest = <<>> THEN NoMatch
    ELSE IF ClosesBlock(Head(rest)) THEN [found |-> TRUE, group |-> taken]
    ELSE LazyGroup(Tail(rest), Append(taken, Head(rest)))

\* rawText.match(/```json\s*([\s\S]*?)```/): the leftmost match
RECURSIVE MatchFence(_)
MatchFence(text) ==
    IF text = <<>> THEN NoMatch
    ELSE IF Head(text) = "open" /\ LazyGroup(Tail(text), <<>>).found
    THEN LazyGroup(Tail(text), <<>>)
    ELSE MatchFence(Tail(text))

\* JSON.parse: one JSON value parses, anything else is a SyntaxError
JsonParse(group) ==
    IF group = <<"obj">> THEN [threw |-> FALSE, value |-> Summary]
    ELSE [threw |-> TRUE, value |-> Null]

\* the extraction without the try/catch around JSON.parse
ParseEnrichmentNoCatch(text) ==
    LET m == MatchFence(text)
    IN  IF m.found /\ m.group # <<>>
        THEN JsonParse(m.group)
        ELSE [threw |-> FALSE, value |-> Null]

\* let parsedData = null; if (jsonMatch && jsonMatch[1]) { try { parsedData =
\* JSON.parse(jsonMatch[1]) } catch (e) { console.error(...) } }
ParseEnrichment(text) ==
    LET m == MatchFence(text)
    IN  IF m.found /\ m.group # <<>>
        THEN IF JsonParse(m.group).threw
             THEN [threw |-> FALSE, value |-> Null]
             ELSE [threw |-> FALSE, value |-> JsonParse(m.group).value]
        ELSE [threw |-> FALSE, value |-> Null]

\* what the text is, said without running the extraction: the first ```json
\* that some later fence closes opens the block, the nearest fence closes it
BlockOpens(text) ==
    {i \in DOMAIN text :
        /\ text[i] = "open"
        /\ \E j \in DOMAIN text : j > i /\ text[j] \in {"open", "close"}}

Least(S) == CHOOSE x \in S : \A y \in S : x <= y

BlockOf(text) ==
    LET i == Least(BlockOpens(text))
        j == Least({k \in DOMAIN text : k > i /\ text[k] \in {"open", "close"}})
    IN  SubSeq(text, i + 1, j - 1)

KindOfText(text) ==
    IF BlockOpens(text) = {} THEN "no_block"
    ELSE IF BlockOf(text) = <<"obj">> THEN "json_block"
    ELSE "bad_block"

\* res.status(200).json(report)
ReportSent(report) == [NoResp EXCEPT !.status = 200, !.report = report]

NewReportId(rs) == Len(rs) + 1

\* the payloads the Reports table stores: a JSON object, and null
ReportsAccepts(data) == data \in {Null, Summary}

\* a single cached row that every generation overwrites
ReportsUpsert(rs, data, t) ==
    IF rs = <<>>
    THEN <<[id |-> 1, createdAt |-> t, data |-> data]>>
    ELSE [rs EXCEPT ![Len(rs)] = [id |-> rs[Len(rs)].id, createdAt |-> t,
                                  data |-> data]]

\* reports.create({ data: { data } }): one more row, stamped by the clock
ReportsCreate(rs, data, t) ==
    Append(rs, [id |-> NewReportId(rs), createdAt |-> t, data |-> data])

GenerateLoad(p) ==
    /\ pc[p] = "gen_load"
    /\ \E ok \in BOOLEAN :
        IF ok
        THEN /\ loc' = [loc EXCEPT ![p].reportData = ReportData(sessions, events)]
             /\ Await(p, "gen_fetch")
             /\ UNCHANGED body
        ELSE /\ Throw(p, "db")
             /\ loc' = [loc EXCEPT ![p] = NoLocals]
    /\ UNCHANGED <<sessions, events, reports, now, op, created, added>>

\* what the extraction makes of each text the model may answer with: the
\* kind of text and the outcome of the parse
EnrichmentOutcomes ==
    {[textKind |-> KindOfText(text), parsed |-> ParseEnrichment(text)] :
        text \in Texts}

\* fetch(...), geminiResponse.json() and the extraction that follows them
GenerateFetch(p) ==
    /\ pc[p] = "gen_fetch"
    /\ \/ /\ Throw(p, "fetch")
          /\ loc' = [loc EXCEPT ![p] = NoLocals]
       \/ \E o \in EnrichmentOutcomes :
            IF o.parsed.threw
            THEN /\ Throw(p, "parse")
                 /\ loc' = [loc EXCEPT ![p] =
                              [NoLocals EXCEPT !.textKind = o.textKind]]
            ELSE /\ Await(p, "gen_save")
                 /\ UNCHANGED body
                 /\ loc' = [loc EXCEPT ![p].reportData = NoData,
                                       ![p].textKind = o.textKind,
                                       ![p].parsedData = o.parsed.value]
    /\ UNCHANGED <<sessions, events, reports, now, op, created, added>>

GenerateSave(p) ==
    /\ pc[p] = "gen_save"
    /\ \E ok \in BOOLEAN :
        IF ok /\ ReportsAccepts(loc[p].parsedData)
        THEN /\ reports' = ReportsCreate(reports, loc[p].parsedData, now)
             /\ created' = [created EXCEPT ![p] = {reports'[Len(reports')].id}]
             /\ Reply(p, ReportSent(reports'[Len(reports')]))
             /\ loc' = [loc EXCEPT ![p].parsedData = Null]
        ELSE /\ Throw(p, "db")
             /\ loc' = [loc EXCEPT ![p] =
                          [NoLocals EXCEPT !.textKind = loc[p].textKind]]
             /\ UNCHANGED <<reports, created>>
    /\ UNCHANGED <<sessions, events, now, op, added>>

\* --------------------------------------------------------- getLatestReport
Greatest(S) == CHOOSE x \in S : \A y \in S : y <= x

\* the same query ordered the other way: a row with the least createdAt
FindFirstAsc(rs) ==
    IF rs = <<>> THEN {NoReport}
    ELSE {rs[i] : i \in {k \in DOMAIN rs :
              rs[k].createdAt = Least({rs[n].createdAt : n \in DOMAIN rs})}}

\* reports.findFirst({ orderBy: { createdAt: "desc" } }): a row with the
\* greatest createdAt (any of them when several share it), or none
FindFirstDesc(rs) ==
    IF rs = <<>> THEN {NoReport}
    ELSE {rs[i] : i \in {k \in DOMAIN rs :
              rs[k].createdAt = Greatest({rs[n].createdAt : n \in DOMAIN rs})}}

\* if (diffInMinutes > 0)
IsStale(diffInMinutes) == diffInMinutes > 0

\* the freshness test without the `if (!latestReport)` branch before it
ServesCachedNoNullCheck(latestReport, t) ==
    ~IsStale(t - latestReport.createdAt)

\* the branch that answers with latestReport: there is one, and it is not
\* stale
ServesCached(latestReport, t) ==
    /\ latestReport # NoReport
    /\ ~IsStale(t - latestReport.createdAt)

\* the handler starts with the findFirst query; what it found waits in
\* latestReport until the handler resumes
GetLatestReport(p) ==
    /\ Begin(p, "getLatestReport")
    /\ \E ok \in BOOLEAN :
        IF ~ok
        THEN /\ Throw(p, "db")
             /\ loc' = [loc EXCEPT ![p] = NoLocals]
        ELSE \E r \in FindFirstDesc(reports) :
            /\ loc' = [loc EXCEPT ![p] = [NoLocals EXCEPT !.latest = r]]
            /\ Await(p, "glr_decide")
            /\ UNCHANGED body
    /\ UNCHANGED <<sessions, events, reports, now>>

\* the handler resumes: it reads the clock and answers with latestReport or
\* calls generateReport (while the table has room for one more row)
GetLatestReportDecide(p) ==
    /\ pc[p] = "glr_decide"
    /\ LET r == loc[p].latest
       IN  /\ loc' = [loc EXCEPT ![p].age =
                        IF r = NoReport THEN -1 ELSE now - r.createdAt]
           /\ IF ServesCached(r, now)
              THEN Reply(p, ReportSent(r))
              ELSE /\ Len(reports)
                        + InFlight({"gen_load", "gen_fetch", "gen_save"})
                        < MaxReports
                   /\ Await(p, "gen_load")
                   /\ UNCHANGED body
    /\ UNCHANGED <<sessions, events, reports, now, op, created, added>>

Next ==
    \/ Tick
    \/ \E p \in Procs : CreateSessionStart(p)
    \/ \E p \in Procs : CreateSessionCreate(p)
    \/ \E p \in Procs : LogEventStart(p)
    \/ \E p \in Procs : LogEventFind(p)
    \/ \E p \in Procs : LogEventCreate(p)
    \/ \E p \in Procs : GetLatestReport(p)
    \/ \E p \in Procs : GetLatestReportDecide(p)
    \/ \E p \in Procs : GenerateLoad(p)
    \/ \E p \in Procs : GenerateFetch(p)
    \/ \E p \in Procs : GenerateSave(p)

Spec == Init /\ [][Next]_vars

\* the report handlers alone, over tables that nothing else writes: GET /report
\* is the only route that reads or writes the Reports table
NextReport ==
    \/ Tick
    \/ \E p \in Procs : GetLatestReport(p)
    \/ \E p \in Procs : GetLatestReportDecide(p)
    \/ \E p \in Procs : GenerateLoad(p)
    \/ \E p \in Procs : GenerateFetch(p)
    \/ \E p \in Procs : GenerateSave(p)

SpecReport == Init /\ [][NextReport]_vars

\* ------------------------------------------------------------- properties
\* the comment of getLatestReport: "generating a new one if it's older than
\* 5 minutes"
FreshnessThresholdMinutes == 5

Done(p, o) == pc[p] = "done" /\ op[p] = o

GenLabels == {"gen_load", "gen_fetch", "gen_save"}

\* C1: a getLatestReport call that finds the most recent Report younger than
\* the freshness threshold (5 minutes) answers with that same Report and
\* creates no Report row.
C1_FreshReportIsServedFromCache ==
    \A p \in Procs :
        (/\ Done(p, "getLatestReport")
         /\ err[p] = "none"
         /\ loc[p].latest # NoReport
         /\ loc[p].age < FreshnessThresholdMinutes)
        => /\ resp[p].report = loc[p].latest
           /\ created[p] = {}

\* C2: a getLatestReport call that found the Report history empty and did not
\* end in an error answers 200 with a Report row that it created, and it
\* created exactly that one row; the body is never null.
C2_EmptyHistoryCreatesOneReport ==
    \A p \in Procs :
        (/\ Done(p, "getLatestReport")
         /\ resp[p].status # 500
         /\ loc[p].latest = NoReport)
        => /\ resp[p].status = 200
           /\ resp[p].report # NoReport
           /\ Cardinality(created[p]) = 1
           /\ resp[p].report.id \in created[p]
           /\ resp[p].report.id \in DOMAIN reports
           /\ reports[resp[p].report.id] = resp[p].report

C2_Witness ==
    \E p \in Procs :
        /\ Done(p, "getLatestReport")
        /\ resp[p].status = 200
        /\ loc[p].latest = NoReport
        /\ created[p] # {}

\* C3: when logEvent's insert for an existing session s and a list of event
\* objects goes through, the answer is 201 with eventsProcessed equal to the
\* length of the list, exactly that many Event rows are added, each with
\* sessionId s, and no earlier Event row changes.
C3_LogEventStoresBatchUnderItsSession ==
    [][\A p \in Procs :
        (/\ pc[p] = "le_create"
         /\ pc'[p] = "done"
         /\ err'[p] = "none")
        => /\ resp'[p].status = 201
           /\ resp'[p].eventsProcessed = Len(body[p].events.items)
           /\ Len(events') = Len(events) + Len(body[p].events.items)
           /\ SubSeq(events', 1, Len(events)) = events
           /\ \A k \in (Len(events) + 1)..Len(events') :
                events'[k].sessionId = body[p].sessionId]_vars

\* C4: a logEvent call whose non-empty sessionId is the id of no Session,
\* once its lookup has answered, ends there with 404 and success:false,
\* whatever its events value is, and writes no Event row.
C4_UnknownSessionIs404 ==
    [][\A p \in Procs :
        (/\ pc[p] = "le_find"
         /\ pc'[p] # "le_find"
         /\ body[p].sessionId \notin SessionIds(sessions)
         /\ err'[p] # "db")
        => /\ pc'[p] = "done"
           /\ resp'[p].status = 404
           /\ ~resp'[p].success
           /\ events' = events
           /\ added'[p] = {}]_vars

C4_Witness ==
    \E p \in Procs :
        /\ Done(p, "logEvent")
        /\ resp[p].status = 404
        /\ sessions # <<>>

\* C5: when the collaborator's text holds no fenced JSON block, or a block
\* that does not parse, the extraction does not throw: unless the save itself
\* fails, the call creates exactly one Report row, with a null payload, and
\* answers 200 with that row.
C5_UnparseableTextStillCreatesReport ==
    \A p \in Procs :
        (/\ Done(p, "getLatestReport")
         /\ loc[p].textKind \in {"no_block", "bad_block"}
         /\ err[p] # "db")
        => /\ resp[p].status = 200
           /\ Cardinality(created[p]) = 1
           /\ \A id \in created[p] :
                /\ id \in DOMAIN reports
                /\ reports[id].data = Null
                /\ resp[p].report = reports[id]

C5_Witness ==
    \E p, q \in Procs :
        /\ Done(p, "getLatestReport") /\ Done(q, "getLatestReport")
        /\ loc[p].textKind = "bad_block" /\ resp[p].status = 200
        /\ loc[q].textKind = "no_block" /\ resp[q].status = 200

\* C6: the aggregate generateReport builds has one entry per Session, and in
\* each entry totalEvents is the number of that session's stored events and
\* eventsByType maps exactly the types that occur among them to the number
\* of stored events of that type.
C6_AggregateCountsStoredEvents ==
    [][\A p \in Procs :
        (pc[p] = "gen_load" /\ pc'[p] = "gen_fetch")
        => LET rd == loc'[p].reportData
           IN  /\ rd.totalSessions = Len(sessions)
               /\ DOMAIN rd.sessions = DOMAIN sessions
               /\ \A i \in DOMAIN sessions :
                    LET mine == {k \in DOMAIN events :
                                    events[k].sessionId = sessions[i].id}
                        e == rd.sessions[i]
                    IN  /\ e.id = sessions[i].id
                        /\ e.totalEvents = Cardinality(mine)
                        /\ DOMAIN e.eventsByType = {events[k].type : k \in mine}
                        /\ \A t \in DOMAIN e.eventsByType :
                             e.eventsByType[t] =
                                Cardinality({k \in mine : events[k].type = t})]_vars

C6_Witness ==
    \E p \in Procs :
        /\ pc[p] = "gen_fetch"
        /\ \E i \in DOMAIN loc[p].reportData.sessions :
            LET e == loc[p].reportData.sessions[i]
            IN  /\ e.totalEvents = 2
                /\ "CLICK" \in DOMAIN e.eventsByType
                /\ e.eventsByType["CLICK"] = 2

\* C7: a createSession call with a non-empty anonymousId whose insert does
\* not fail adds exactly one Session row and answers 201 with success:true,
\* the anonymousId of the request, and the id of the new row, which is the
\* id of no Session that existed before.
C7_CreateSessionAddsFreshSession ==
    [][\A p \in Procs :
        (/\ pc[p] = "cs_create"
         /\ pc'[p] # "cs_create"
         /\ err'[p] # "db")
        => /\ Len(sessions') = Len(sessions) + 1
           /\ SubSeq(sessions', 1, Len(sessions)) = sessions
           /\ sessions'[Len(sessions')].anonymousId = body[p].anonymousId
           /\ resp'[p].status = 201
           /\ resp'[p].success
           /\ resp'[p].anonymousId = body[p].anonymousId
           /\ resp'[p].id = sessions'[Len(sessions')].id
           /\ resp'[p].id \notin SessionIds(sessions)]_vars

C7_Witness ==
    \E p \in Procs :
        /\ Done(p, "createSession")
        /\ resp[p].status = 201
        /\ Len(sessions) >= 2
        /\ sessions[1].anonymousId = sessions[2].anonymousId
        /\ sessions[1].id # sessions[2].id
        /\ resp[p].id = sessions[2].id

\* C8: a getLatestReport call in which a step of the generation failed
\* answers 500 and has created no Report row; the step that fails leaves the
\* Reports table as it was, and the table changes only by the row a
\* successful save appends as the last step of a call.
C8_FailedGenerationWritesNothing ==
    [][/\ \A p \in Procs :
            (op'[p] = "getLatestReport" /\ pc'[p] = "done" /\ err'[p] # "none")
            => resp'[p].status = 500 /\ created'[p] = {}
       /\ \A p \in Procs :
            (pc[p] \in GenLabels /\ err'[p] # "none") => reports' = reports
       /\ reports' # reports
            => \E p \in Procs :
                /\ pc[p] = "gen_save"
                /\ pc'[p] = "done"
                /\ resp'[p].status = 200
                /\ reports' = Append(reports, resp'[p].report)]_vars

C8_Witness ==
    \E p, q \in Procs :
        /\ Done(p, "getLatestReport") /\ err[p] = "fetch"
        /\ Done(q, "getLatestReport") /\ err[q] = "db"
        /\ resp[p].status = 500 /\ resp[q].status = 500
        /\ reports = <<>>

C10_EachRegenerationKeepsItsOwnRow ==
    [][/\ \A p \in Procs :
            (pc[p] = "gen_save" /\ pc'[p] = "done" /\ err'[p] = "none")
            => /\ Len(reports') = Len(reports) + 1
               /\ SubSeq(reports', 1, Len(reports)) = reports
               /\ created'[p] = {reports'[Len(reports')].id}
               /\ resp'[p].report = reports'[Len(reports')]
       /\ \A p \in Procs :
            (op'[p] = "getLatestReport" /\ pc'[p] = "done")
            => /\ \A id \in created'[p] :
                    /\ id \in DOMAIN reports'
                    /\ reports'[id].id = id
                    /\ reports'[id] = resp'[p].report
               /\ \A q \in Procs \ {p} : created'[q] \cap created'[p] = {}]_vars

\* two calls both found no Report before either saved, and each created and
\* returned a row of its own
C10_Witness ==
    \E p, q \in Procs :
        /\ p # q
        /\ Done(p, "getLatestReport") /\ Done(q, "getLatestReport")
        /\ loc[p].latest = NoReport /\ loc[q].latest = NoReport
        /\ resp[p].status = 200 /\ resp[q].status = 200
        /\ created[p] # {} /\ created[q] # {}
        /\ created[p] \cap created[q] = {}
        /\ Len(reports) = 2

\* the greatest creation timestamp among the stored Report rows
MaxCreatedAt(rs) == Greatest({rs[n].createdAt : n \in DOMAIN rs})

\* C11: no step removes or changes a Report row, so the rows never become
\* fewer; what a getLatestReport call's findFirst hands it as the latest
\* Report is a stored row whose createdAt is the greatest of all stored
\* rows (and none only when the table is empty); and a Report answered
\* from the cache is that row, still stored and still of the greatest
\* createdAt when it is sent.
C11_ReportsAppendOnlyLatestIsNewest ==
    [][/\ Len(reports') >= Len(reports)
       /\ SubSeq(reports', 1, Len(reports)) = reports
       /\ \A p \in Procs :
            (pc[p] # "glr_decide" /\ pc'[p] = "glr_decide")
            => IF reports = <<>>
               THEN loc'[p].latest = NoReport
               ELSE /\ \E i \in DOMAIN reports : reports[i] = loc'[p].latest
                    /\ loc'[p].latest.createdAt = MaxCreatedAt(reports)
       /\ \A p \in Procs :
            (/\ pc[p] = "glr_decide"
             /\ pc'[p] = "done"
             /\ loc[p].latest # NoReport)
            => /\ resp'[p].report = loc[p].latest
               /\ \E i \in DOMAIN reports' : reports'[i] = resp'[p].report
               /\ resp'[p].report.createdAt = MaxCreatedAt(reports')]_vars

\* two Reports of different ages are stored, and a call found the newer one
\* and answered with it from the cache
C11_Witness ==
    \E p \in Procs :
        /\ Done(p, "getLatestReport")
        /\ resp[p].status = 200
        /\ created[p] = {}
        /\ loc[p].latest # NoReport
        /\ resp[p].report = loc[p].latest
        /\ \E i \in DOMAIN reports :
             reports[i].createdAt < loc[p].latest.createdAt
====
